---- MODULE Spec2Model ----
(***************************************************************************)
(* A model of the aiohttp task tracker: the JWT gate (app/middlewares.py), *)
(* the route handlers (app/handlers.py), the token helpers (app/utils.py)  *)
(* and the store adapter (app/db.py).  The database tables are the state;  *)
(* every HTTP request is one action: the middleware followed by the whole  *)
(* route handler.  The methods of Database are operators; update_task and  *)
(* delete_task are also actions of their own, as the store's public API.   *)
(* For the claims about requests in flight the PUT handler is also given   *)
(* await by await (PutCheck, PutUpdate), and for the connection pool the   *)
(* run of the process is given from init_app to the return of run_app.     *)
(***************************************************************************)
EXTENDS Integers, Sequences, FiniteSets, TLC

VARIABLES users, tasks, nextTaskId, now, jar, last, proc, puts

vars == <<users, tasks, nextTaskId, now, jar, last, proc, puts>>

(* ------------------------------ bounds --------------------------------- *)

\* rows the users table may hold
MaxUsers == 2
\* values the tasks id sequence may hand out
MaxTasks == 1
\* rows of the tasks table the listing runs start from
MaxListed == 2
\* clock steps (each of expires_in minutes)
MaxTicks == 1
\* status parameters of one GET /tasks query string
MaxQuery == 2

(* --------------------------- Python values ----------------------------- *)

\* Values are tagged with their Python type, so that truthiness, identity
\* with None and JSON serialisability are decided as the interpreter does.
None == [py |-> "None"]
\* a key that the dict (JSON object, cookie jar, payload) does not hold
Absent == [py |-> "absent"]
PyStr(s) == [py |-> "str", s |-> s]
PyInt(n) == [py |-> "int", n |-> n]
PyDate(d) == [py |-> "date", d |-> d]
PyDatetime(t) == [py |-> "datetime", t |-> t]

\* bool(v)
Truthy(v) ==
    CASE v.py = "None" -> FALSE
      [] v.py = "absent" -> FALSE
      [] v.py = "str" -> v.s # ""
      [] v.py = "int" -> v.n # 0
      [] OTHER -> TRUE

\* dict.get(key): None for a missing key
Get(d, key) == IF d[key] = Absent THEN None ELSE d[key]

\* date.fromisoformat / date.isoformat / datetime.isoformat: the ISO text of
\* day d and of instant t are (non-empty) strings
IsoDate(d) == [py |-> "str", s |-> "YYYY-MM-DD", isodate |-> d]
IsoDatetime(t) == [py |-> "str", s |-> "YYYY-MM-DDTHH:MM:SS", isodatetime |-> t]
fromisoformat(s) == PyDate(s.isodate)
date_isoformat(v) == IsoDate(v.d)
datetime_isoformat(v) == IsoDatetime(v.t)

(* ------------------------------ utils.py ------------------------------- *)

SECRET_KEY == "SECRET_KEY"
expires_in == 60

\* bcrypt: the hash is not the password, and checkpw recovers the match
hash_password(password) == [bcrypt |-> password.s]
\* check_password with every password taken for the right one
check_password_any(password, hashed) == TRUE
check_password(password, hashed) == hashed.bcrypt = password.s

\* jwt.encode of the payload with "exp" added, at instant t (minutes); ttl
\* is the expires_in argument, which callers leave at its default
generate_jwt(payload, ttl, t) ==
    [py |-> "jwt", key |-> SECRET_KEY,
     payload |-> [user_id |-> payload.user_id, exp |-> PyInt(t + ttl)]]

\* decode_jwt with the expiry left unverified
decode_jwt_ignoring_exp(token, t) ==
    IF token.py # "jwt" \/ token.key # SECRET_KEY
    THEN [ok |-> FALSE, text |-> "Invalid token"]
    ELSE [ok |-> TRUE, payload |-> token.payload]

\* decode_jwt with a token still good at the instant of its "exp"
decode_jwt_good_at_exp(token, t) ==
    IF token.py # "jwt" \/ token.key # SECRET_KEY
    THEN [ok |-> FALSE, text |-> "Invalid token"]
    ELSE IF token.payload.exp # Absent /\ token.payload.exp.n < t
    THEN [ok |-> FALSE, text |-> "Token has expired"]
    ELSE [ok |-> TRUE, payload |-> token.payload]

\* jwt.decode at instant t: the payload, or the HTTPUnauthorized it raises
\* (the signature is expired once "exp" <= the instant of the check)
decode_jwt(token, t) ==
    IF token.py # "jwt" \/ token.key # SECRET_KEY
    THEN [ok |-> FALSE, text |-> "Invalid token"]
    ELSE IF token.payload.exp # Absent /\ token.payload.exp.n <= t
    THEN [ok |-> FALSE, text |-> "Token has expired"]
    ELSE [ok |-> TRUE, payload |-> token.payload]

(* --------------------------- middlewares.py ---------------------------- *)

PublicPaths == {"/login", "/register"}
NoCookies == [jwt_token |-> Absent, token |-> Absent]

\* jwt_auth_middleware with the decision of the request before remembered
\* for the cookies it was made for
jwt_auth_middleware_cached(path, cookies, t) ==
    IF path \in PublicPaths
    THEN [pass |-> TRUE, user_id |-> Absent, text |-> ""]
    ELSE IF last.handled /\ last.user_id # Absent /\ last.cookies = cookies
    THEN [pass |-> TRUE, user_id |-> last.user_id, text |-> ""]
    ELSE LET token == Get(cookies, "jwt_token") IN
         IF ~Truthy(token)
         THEN [pass |-> FALSE, user_id |-> Absent,
               text |-> "Authorization header is missing or invalid"]
         ELSE LET d == decode_jwt(token, t) IN
              IF ~d.ok
              THEN [pass |-> FALSE, user_id |-> Absent, text |-> d.text]
              ELSE IF d.payload.user_id = Absent
              THEN [pass |-> FALSE, user_id |-> Absent, text |-> "'user_id'"]
              ELSE [pass |-> TRUE, user_id |-> d.payload.user_id, text |-> ""]

\* The gate's decision for one request: whether the handler is called, and
\* request["user_id"] when it is.
jwt_auth_middleware(path, cookies, t) ==
    IF path \in PublicPaths
    THEN [pass |-> TRUE, user_id |-> Absent, text |-> ""]
    ELSE LET token == Get(cookies, "jwt_token") IN
         IF ~Truthy(token)
         THEN [pass |-> FALSE, user_id |-> Absent,
               text |-> "Authorization header is missing or invalid"]
         ELSE LET d == decode_jwt(token, t) IN
              IF ~d.ok
              THEN [pass |-> FALSE, user_id |-> Absent, text |-> d.text]
              ELSE IF d.payload.user_id = Absent
              THEN [pass |-> FALSE, user_id |-> Absent, text |-> "'user_id'"]
              ELSE [pass |-> TRUE, user_id |-> d.payload.user_id, text |-> ""]

(* ------------------------------- state --------------------------------- *)

\* What the last request was and how it ended.  op names the route (or the
\* store method called directly); handled says the route handler ran;
\* before is the row with id task_id as it was when the request arrived;
\* found is the list the store returned to the handler, result the body of
\* the response; ret is the value the store's update or delete returned.
Blank ==
    [op |-> "", path |-> "", cookies |-> NoCookies, data |-> None,
     user_id |-> Absent, handled |-> FALSE, status |-> 0, text |-> "",
     found |-> << >>, result |-> << >>, set_cookie |-> NoCookies, task_id |-> 0,
     before |-> None, ret |-> None, at |-> 0]

\* The process and its connection pool: phase is where main.py is (before
\* init_app has run, serving under web.run_app, or exited); pool is
\* Database.pool; connects and closes count the calls of create_pool and
\* of pool.close.
NotStarted == [phase |-> "init", pool |-> None, connects |-> 0, closes |-> 0]

\* Database.connect: self.pool = await asyncpg.create_pool(...)
DbConnect(p) == [p EXCEPT !.pool = PyStr("open"), !.connects = @ + 1]

\* Database.close: if self.pool: await self.pool.close()
DbClose(p) ==
    IF Truthy(p.pool) THEN [p EXCEPT !.pool = PyStr("closed"), !.closes = @ + 1]
    ELSE p

\* the process once init_app has returned and run_app serves requests
Started == [DbConnect(NotStarted) EXCEPT !.phase = "serving"]

\* the callbacks init_app registers on the application for its cleanup
\* (app.on_cleanup, app.on_shutdown): none
on_cleanup == << >>

\* PUT requests in flight.  The handler update_task gives up control at
\* its awaits; req[c] is where the request of client c stands between
\* them (pc idle: not sent; checked: get_task_by_id has answered and the
\* body is validated and deserialized into d; done: answered), and log
\* is the order in which the statements of the requests reached the store.
Clients == {"A", "B"}

Idle ==
    [pc |-> "idle", user_id |-> Absent, task_id |-> 0, data |-> None, d |-> None,
     status |-> 0, text |-> "", ret |-> None, at |-> 0]

NoPuts == [req |-> [c \in Clients |-> Idle], log |-> << >>]

Init ==
    /\ users = << >>
    /\ tasks = << >>
    /\ nextTaskId = 1
    /\ now = 0
    /\ jar = NoCookies
    /\ last = Blank
    /\ proc = Started
    /\ puts = NoPuts

\* the request as it reaches the middleware
Request(op, path, cookies, data) ==
    [Blank EXCEPT !.op = op, !.path = path, !.cookies = cookies,
                  !.data = data, !.at = now]

\* the middleware's 401, the handler never called
Unauthorized(req, gate) ==
    [req EXCEPT !.status = 401, !.text = gate.text]

(* ------------------------- db.py: the users ---------------------------- *)

\* users.email is unique (the table's schema): the INSERT raises
EmailTaken(email) == \E i \in DOMAIN users : users[i].email = email

DbCreateUser(email, password) ==
    Append(users, [id |-> Len(users) + 1, email |-> email, password |-> password])

DbGetUserByEmail(email) ==
    IF \E i \in DOMAIN users : users[i].email = email
    THEN users[CHOOSE i \in DOMAIN users : users[i].email = email]
    ELSE None

(* --------------------- handlers.py: the accounts ----------------------- *)

RegisterUser(data) ==
    LET req == Request("register", "/register", NoCookies, data)
        gate == jwt_auth_middleware("/register", NoCookies, now)
    IN
    /\ gate.pass
    /\ IF ~Truthy(Get(data, "email")) \/ ~Truthy(Get(data, "password"))
       THEN /\ last' = [req EXCEPT !.handled = TRUE, !.status = 400,
                                   !.text = "Missing email or password"]
            /\ UNCHANGED users
       ELSE IF EmailTaken(data.email.s)
       THEN /\ last' = [req EXCEPT !.handled = TRUE, !.status = 500]
            /\ UNCHANGED users
       ELSE /\ Len(users) < MaxUsers
            /\ users' = DbCreateUser(data.email.s, hash_password(data.password))
            /\ last' = [req EXCEPT !.handled = TRUE, !.status = 201,
                                   !.text = "User registered successfully"]
    /\ UNCHANGED <<tasks, nextTaskId, now, jar, proc, puts>>

LoginUser(data) ==
    LET req == Request("login", "/login", NoCookies, data)
        gate == jwt_auth_middleware("/login", NoCookies, now)
    IN
    /\ gate.pass
    /\ IF ~Truthy(Get(data, "email")) \/ ~Truthy(Get(data, "password"))
       THEN /\ last' = [req EXCEPT !.handled = TRUE, !.status = 400,
                                   !.text = "Missing email or password"]
            /\ UNCHANGED jar
       ELSE LET user_data == DbGetUserByEmail(data.email.s) IN
            IF user_data = None \/ ~check_password(data.password, user_data.password)
            THEN /\ last' = [req EXCEPT !.handled = TRUE, !.status = 401,
                                        !.text = "Invalid credentials"]
                 /\ UNCHANGED jar
            ELSE LET value == generate_jwt([user_id |-> PyInt(user_data.id)], expires_in, now)
                     cookie == [NoCookies EXCEPT !.token = value]
                 IN /\ last' = [req EXCEPT !.handled = TRUE, !.status = 200,
                                           !.text = "Login successful",
                                           !.set_cookie = cookie]
                    \* the client keeps the cookie of the response
                    /\ jar' = [jar EXCEPT !.token = value]
    /\ UNCHANGED <<users, tasks, nextTaskId, now, proc, puts>>

\* time passes
Tick ==
    /\ now + expires_in <= MaxTicks * expires_in
    /\ now' = now + expires_in
    /\ UNCHANGED <<users, tasks, nextTaskId, jar, last, proc, puts>>

(* ------------------------- db.py: the tasks ---------------------------- *)

\* the table's default for tasks.created (the INSERT leaves the column out)
created_default(t) == PyDatetime(t)

\* INSERT INTO tasks ... VALUES ($1, $2, $3, $4, $5, $6, NOW()) RETURNING id
DbCreateTask(name, description, status, user_id, expiration_date, priority, t) ==
    tasks @@ (nextTaskId :>
        [id |-> nextTaskId, user_id |-> user_id, name |-> name,
         description |-> description, status |-> status,
         created |-> created_default(t), last_status_modified |-> PyDatetime(t),
         expiration_date |-> expiration_date, priority |-> priority])

\* SELECT id, name, description, status, created, last_status_modified,
\* expiration_date, priority: the dict of one row (no user_id column)
SelectColumns(row) ==
    [id |-> PyInt(row.id), name |-> row.name, description |-> row.description,
     status |-> row.status, created |-> row.created,
     last_status_modified |-> row.last_status_modified,
     expiration_date |-> row.expiration_date, priority |-> row.priority]

\* StatusRank as ORDER BY status ASC would rank
StatusRankByName(status) ==
    CASE status.s = "done" -> 1
      [] status.s = "in_progress" -> 2
      [] status.s = "new" -> 3
      [] OTHER -> 4

\* CASE status WHEN ... END: NULL for any other status, and NULLs sort last
StatusRank(status) ==
    CASE status.s = "in_progress" -> 1
      [] status.s = "new" -> 2
      [] status.s = "done" -> 3
      [] OTHER -> 4

\* ORDER BY CASE status ... END ASC, priority DESC, last_status_modified DESC:
\* whether row a must come before row b
OrderedBefore(a, b) ==
    \/ StatusRank(a.status) < StatusRank(b.status)
    \/ /\ StatusRank(a.status) = StatusRank(b.status)
       /\ \/ a.priority.n > b.priority.n
          \/ /\ a.priority.n = b.priority.n
             /\ a.last_status_modified.t > b.last_status_modified.t

RECURSIVE InsertOrdered(_, _)
InsertOrdered(row, sorted) ==
    IF sorted = << >> THEN <<row>>
    ELSE IF OrderedBefore(row, Head(sorted)) THEN <<row>> \o sorted
    ELSE <<Head(sorted)>> \o InsertOrdered(row, Tail(sorted))

\* the rows in the order of the ORDER BY clause; rows that the three keys
\* do not separate keep the order of the scan
RECURSIVE OrderBy(_)
OrderBy(rows) ==
    IF rows = << >> THEN << >>
    ELSE InsertOrdered(rows[Len(rows)], OrderBy(SubSeq(rows, 1, Len(rows) - 1)))

\* the orders in which a scan may meet the rows of the table
Scans ==
    {f \in [1..Cardinality(DOMAIN tasks) -> DOMAIN tasks] :
        \A i, j \in DOMAIN f : i # j => f[i] # f[j]}

Dicts(rows) == [i \in DOMAIN rows |-> SelectColumns(rows[i])]

\* get_tasks: WHERE user_id = $1 ORDER BY ...
DbGetTasks(user_id, scan) ==
    LET Where(row) == row.user_id = user_id
    IN Dicts(OrderBy(SelectSeq([i \in DOMAIN scan |-> tasks[scan[i]]], Where)))

\* get_tasks_by_statuses: WHERE user_id = $1 AND status = ANY($2::text[])
\* ORDER BY ...
DbGetTasksByStatuses(user_id, statuses, scan) ==
    LET Where(row) ==
            /\ row.user_id = user_id
            /\ \E k \in DOMAIN statuses : row.status.s = statuses[k]
    IN Dicts(OrderBy(SelectSeq([i \in DOMAIN scan |-> tasks[scan[i]]], Where)))

\* get_task_by_id(user_id, task_id): WHERE id = $1 AND user_id = $2, bound
\* to (task_id, user_id)
DbGetTaskById(user_id, task_id) ==
    IF \E i \in DOMAIN tasks : tasks[i].id = task_id /\ tasks[i].user_id = user_id
    THEN SelectColumns(tasks[CHOOSE i \in DOMAIN tasks :
                                 tasks[i].id = task_id /\ tasks[i].user_id = user_id])
    ELSE None

\* one "column = value" of the SET clause
Assign(col, val) == <<[col |-> col, val |-> val]>>

\* UpdateFields with last_status_modified = NOW() in every update
UpdateFieldsTouching(name, description, status, expiration_date, priority, t) ==
    (IF Truthy(name) THEN Assign("name", name) ELSE << >>)
    \o (IF Truthy(description) THEN Assign("description", description) ELSE << >>)
    \o (IF Truthy(status) THEN Assign("status", status) ELSE << >>)
    \o Assign("last_status_modified", PyDatetime(t))
    \o (IF expiration_date # None
        THEN Assign("expiration_date", expiration_date)
        ELSE Assign("expiration_date", None))
    \o (IF Truthy(priority) THEN Assign("priority", priority) ELSE << >>)

\* UpdateFields with expiration_date treated like the other fields
UpdateFieldsKeeping(name, description, status, expiration_date, priority, t) ==
    (IF Truthy(name) THEN Assign("name", name) ELSE << >>)
    \o (IF Truthy(description) THEN Assign("description", description) ELSE << >>)
    \o (IF Truthy(status)
        THEN Assign("status", status) \o Assign("last_status_modified", PyDatetime(t))
        ELSE << >>)
    \o (IF expiration_date # None
        THEN Assign("expiration_date", expiration_date)
        ELSE << >>)
    \o (IF Truthy(priority) THEN Assign("priority", priority) ELSE << >>)

\* UpdateFields with every column set, whatever the argument
UpdateFieldsUnconditional(name, description, status, expiration_date, priority, t) ==
    Assign("name", name) \o Assign("description", description)
    \o Assign("status", status) \o Assign("last_status_modified", PyDatetime(t))
    \o Assign("expiration_date", expiration_date) \o Assign("priority", priority)

\* the fields list that update_task builds from its keyword arguments
UpdateFields(name, description, status, expiration_date, priority, t) ==
    (IF Truthy(name) THEN Assign("name", name) ELSE << >>)
    \o (IF Truthy(description) THEN Assign("description", description) ELSE << >>)
    \o (IF Truthy(status)
        THEN Assign("status", status) \o Assign("last_status_modified", PyDatetime(t))
        ELSE << >>)
    \o (IF expiration_date # None
        THEN Assign("expiration_date", expiration_date)
        ELSE Assign("expiration_date", None))
    \o (IF Truthy(priority) THEN Assign("priority", priority) ELSE << >>)

\* the column's value after SET
SetColumn(fields, col, old) ==
    IF \E i \in DOMAIN fields : fields[i].col = col
    THEN fields[CHOOSE i \in DOMAIN fields : fields[i].col = col].val
    ELSE old

UpdateRow(row, fields) ==
    [id |-> row.id, user_id |-> row.user_id, created |-> row.created,
     name |-> SetColumn(fields, "name", row.name),
     description |-> SetColumn(fields, "description", row.description),
     status |-> SetColumn(fields, "status", row.status),
     last_status_modified |->
         SetColumn(fields, "last_status_modified", row.last_status_modified),
     expiration_date |-> SetColumn(fields, "expiration_date", row.expiration_date),
     priority |-> SetColumn(fields, "priority", row.priority)]

\* WhereIdAndUser without the owner
WhereIdOnly(task_id, user_id) ==
    {i \in DOMAIN tasks : tasks[i].id = task_id}

\* WHERE id = $n AND user_id = $n+1
WhereIdAndUser(task_id, user_id) ==
    {i \in DOMAIN tasks : tasks[i].id = task_id /\ tasks[i].user_id = user_id}

\* update_task: the table afterwards and the value returned
DbUpdateTask(task_id, user_id, name, description, status, expiration_date, priority, t) ==
    LET fields == UpdateFields(name, description, status, expiration_date, priority, t)
        hit == WhereIdAndUser(task_id, user_id)
    IN IF fields = << >>
       THEN [tasks |-> tasks, ret |-> FALSE]
       ELSE [tasks |-> [i \in DOMAIN tasks |->
                           IF i \in hit THEN UpdateRow(tasks[i], fields) ELSE tasks[i]],
             \* result == "UPDATE 1"
             ret |-> Cardinality(hit) = 1]

\* delete_task: the table afterwards and the value returned
DbDeleteTask(task_id, user_id) ==
    LET hit == WhereIdAndUser(task_id, user_id)
    IN [tasks |-> [i \in DOMAIN tasks \ hit |-> tasks[i]],
        \* result == "DELETE 1"
        ret |-> Cardinality(hit) = 1]

\* the row with this id, whoever owns it (None when there is none)
RowWithId(task_id) == IF task_id \in DOMAIN tasks THEN tasks[task_id] ELSE None

(* ----------------------- handlers.py: the tasks ------------------------ *)

StatusEnum == {"new", "in_progress", "done"}

\* status in tuple(StatusEnum): a str equal to one of the members
InStatusEnum(v) == v.py = "str" /\ v.s \in StatusEnum

\* the (field, not_null) pairs in the order validate_task_data goes through
TaskFields ==
    <<[field |-> "name", not_null |-> TRUE],
      [field |-> "description", not_null |-> TRUE],
      [field |-> "status", not_null |-> TRUE],
      [field |-> "expiration_date", not_null |-> FALSE],
      [field |-> "priority", not_null |-> TRUE]>>

RequiredText ==
    [name |-> "name is required", description |-> "description is required",
     status |-> "status is required",
     expiration_date |-> "expiration_date is required",
     priority |-> "priority is required"]

\* validate_task_data without the check of the status
validate_required_only(data) ==
    LET bad == {i \in DOMAIN TaskFields :
                   \/ data[TaskFields[i].field] = Absent
                   \/ TaskFields[i].not_null /\ data[TaskFields[i].field] = None}
    IN IF bad # {}
       THEN RequiredText[TaskFields[CHOOSE i \in bad : \A j \in bad : i <= j].field]
       ELSE ""

\* validate_task_data: the text of the ValidationError raised, "" for none
validate_task_data(data) ==
    LET bad == {i \in DOMAIN TaskFields :
                   \/ data[TaskFields[i].field] = Absent
                   \/ TaskFields[i].not_null /\ data[TaskFields[i].field] = None}
    IN IF bad # {}
       THEN RequiredText[TaskFields[CHOOSE i \in bad : \A j \in bad : i <= j].field]
       ELSE IF ~InStatusEnum(data.status) THEN "Invalid status"
       ELSE ""

\* x and f(x) for the two date conversions
deserialize_task(data) ==
    [name |-> data.name, description |-> data.description,
     status |-> PyStr(data.status.s),
     expiration_date |->
         IF Truthy(data.expiration_date) THEN fromisoformat(data.expiration_date)
         ELSE data.expiration_date,
     priority |-> data.priority]

serialize_task(data) ==
    [id |-> data.id, name |-> data.name, description |-> data.description,
     status |-> PyStr(data.status.s),
     expiration_date |->
         IF Truthy(data.expiration_date) THEN date_isoformat(data.expiration_date)
         ELSE data.expiration_date,
     priority |-> data.priority,
     created |-> datetime_isoformat(data.created),
     last_status_modified |-> datetime_isoformat(data.last_status_modified)]

\* json.dumps knows None, str, int (and dicts and lists of them); a date or
\* a datetime object makes it raise TypeError
JsonSerializable(d) ==
    \A k \in DOMAIN d : d[k].py \in {"None", "str", "int"}

\* web.json_response(data) for a list of dicts: the status and the body
json_response(data) ==
    IF \A i \in DOMAIN data : JsonSerializable(data[i])
    THEN [status |-> 200, result |-> data]
    ELSE [status |-> 500, result |-> << >>]

PyBool(b) == [py |-> "bool", b |-> b]

\* the handler runs with request["user_id"] set by the middleware
Handled(req, gate) == [req EXCEPT !.handled = TRUE, !.user_id = gate.user_id]

CreateTask(cookies, data) ==
    LET req == Request("create_task", "/tasks", cookies, data)
        gate == jwt_auth_middleware("/tasks", cookies, now)
        error == validate_task_data(data)
    IN
    /\ IF ~gate.pass
       THEN /\ last' = Unauthorized(req, gate)
            /\ UNCHANGED <<tasks, nextTaskId>>
       ELSE IF error # ""
       THEN /\ last' = [Handled(req, gate) EXCEPT !.status = 400, !.text = error]
            /\ UNCHANGED <<tasks, nextTaskId>>
       ELSE LET expiration_date ==
                    IF Truthy(Get(data, "expiration_date"))
                    THEN fromisoformat(data.expiration_date)
                    ELSE None
            IN /\ nextTaskId <= MaxTasks
               /\ tasks' = DbCreateTask(data.name, data.description, data.status,
                                        gate.user_id.n, expiration_date,
                                        data.priority, now)
               /\ nextTaskId' = nextTaskId + 1
               /\ last' = [Handled(req, gate) EXCEPT
                               !.status = 200, !.task_id = nextTaskId,
                               !.text = "Task created successfully"]
    /\ UNCHANGED <<users, now, jar, proc, puts>>

\* query: the values of the status parameters of the query string, in order
GetTasks(cookies, query, scan) ==
    LET req == Request("get_tasks", "/tasks", cookies, query)
        gate == jwt_auth_middleware("/tasks", cookies, now)
        \* request.query.get("status"): the first value
        first == IF query = << >> THEN None ELSE PyStr(query[1])
        found == IF Truthy(first)
                 THEN DbGetTasksByStatuses(gate.user_id.n, query, scan)
                 ELSE DbGetTasks(gate.user_id.n, scan)
        \* for task in tasks: task = serialize_task(task) rebinds the loop
        \* variable only (StatusEnum(...) raising for an unknown status);
        \* the response is made of the list as the store returned it
        resp == IF \A i \in DOMAIN found : InStatusEnum(found[i].status)
                THEN json_response(found)
                ELSE [status |-> 500, result |-> << >>]
    IN
    /\ IF ~gate.pass
       THEN last' = Unauthorized(req, gate)
       ELSE last' = [Handled(req, gate) EXCEPT
                        !.found = found, !.status = resp.status,
                        !.result = resp.result]
    /\ UNCHANGED <<users, tasks, nextTaskId, now, jar, proc, puts>>

GetTask(cookies, task_id) ==
    LET req == [Request("get_task", "/tasks/{task_id}/", cookies, None)
                   EXCEPT !.task_id = task_id, !.before = RowWithId(task_id)]
        gate == jwt_auth_middleware("/tasks/{task_id}/", cookies, now)
        task == DbGetTaskById(gate.user_id.n, task_id)
    IN
    /\ IF ~gate.pass
       THEN last' = Unauthorized(req, gate)
       ELSE IF task # None
       THEN LET resp == IF InStatusEnum(task.status)
                        THEN json_response(<<serialize_task(task)>>)
                        ELSE [status |-> 500, result |-> << >>]
            IN last' = [Handled(req, gate) EXCEPT
                           !.status = resp.status, !.result = resp.result]
       ELSE last' = [Handled(req, gate) EXCEPT !.status = 404]
    /\ UNCHANGED <<users, tasks, nextTaskId, now, jar, proc, puts>>

UpdateTask(cookies, task_id, data) ==
    LET req == [Request("update_task", "/tasks/{task_id}/", cookies, data)
                   EXCEPT !.task_id = task_id, !.before = RowWithId(task_id)]
        gate == jwt_auth_middleware("/tasks/{task_id}/", cookies, now)
        task == DbGetTaskById(gate.user_id.n, task_id)
        error == validate_task_data(data)
    IN
    /\ IF ~gate.pass
       THEN /\ last' = Unauthorized(req, gate)
            /\ UNCHANGED tasks
       ELSE IF task = None
       THEN /\ last' = [Handled(req, gate) EXCEPT !.status = 404]
            /\ UNCHANGED tasks
       ELSE IF error # ""
       THEN /\ last' = [Handled(req, gate) EXCEPT !.status = 400, !.text = error]
            /\ UNCHANGED tasks
       ELSE LET d == deserialize_task(data)
                done == DbUpdateTask(task_id, gate.user_id.n, d.name, d.description,
                                     d.status, d.expiration_date, d.priority, now)
            IN /\ tasks' = done.tasks
               \* the value update_task returns is dropped
               /\ last' = [Handled(req, gate) EXCEPT
                               !.status = 200, !.ret = PyBool(done.ret),
                               !.text = "Task updated successfully"]
    /\ UNCHANGED <<users, nextTaskId, now, jar, proc, puts>>

(* --------------- handlers.py: update_task, await by await --------------- *)

\* update_task up to its second await: the middleware, request.json(),
\* get_task_by_id (the SELECT), validate_task_data and deserialize_task
PutCheck(c, cookies, task_id, data) ==
    LET gate == jwt_auth_middleware("/tasks/{task_id}/", cookies, now)
        task == DbGetTaskById(gate.user_id.n, task_id)
        error == validate_task_data(data)
        sent == [Idle EXCEPT !.task_id = task_id, !.data = data, !.at = now]
        answer ==
            IF ~gate.pass
            THEN [sent EXCEPT !.pc = "done", !.status = 401, !.text = gate.text]
            ELSE IF task = None
            THEN [sent EXCEPT !.pc = "done", !.user_id = gate.user_id, !.status = 404]
            ELSE IF error # ""
            THEN [sent EXCEPT !.pc = "done", !.user_id = gate.user_id,
                              !.status = 400, !.text = error]
            ELSE [sent EXCEPT !.pc = "checked", !.user_id = gate.user_id,
                              !.d = deserialize_task(data)]
    IN
    /\ puts.req[c].pc = "idle"
    /\ puts' = [req |-> [puts.req EXCEPT ![c] = answer],
                log |-> Append(puts.log, [client |-> c, step |-> "check",
                                          before |-> RowWithId(task_id)])]
    /\ UNCHANGED <<users, tasks, nextTaskId, now, jar, last, proc>>

\* update_task from its second await on: db.update_task (the UPDATE), whose
\* result is dropped, and the response
PutUpdate(c) ==
    LET q == puts.req[c]
        done == DbUpdateTask(q.task_id, q.user_id.n, q.d.name, q.d.description,
                             q.d.status, q.d.expiration_date, q.d.priority, now)
    IN
    /\ q.pc = "checked"
    /\ tasks' = done.tasks
    /\ puts' = [req |-> [puts.req EXCEPT ![c] =
                            [q EXCEPT !.pc = "done", !.status = 200,
                                      !.text = "Task updated successfully",
                                      !.ret = PyBool(done.ret), !.at = now]],
                log |-> Append(puts.log, [client |-> c, step |-> "update",
                                          before |-> RowWithId(q.task_id)])]
    /\ UNCHANGED <<users, nextTaskId, now, jar, last, proc>>

(* ------------------ the store's methods, called directly --------------- *)

\* Database.update_task(task_id, user_id, **patch); a keyword left out is
\* None in patch
StoreUpdateTask(task_id, user_id, patch) ==
    LET done == DbUpdateTask(task_id, user_id, patch.name, patch.description,
                             patch.status, patch.expiration_date, patch.priority, now)
    IN
    /\ tasks' = done.tasks
    /\ last' = [Request("db.update_task", "", NoCookies, patch) EXCEPT
                    !.task_id = task_id, !.user_id = PyInt(user_id),
                    !.before = RowWithId(task_id), !.ret = PyBool(done.ret)]
    /\ UNCHANGED <<users, nextTaskId, now, jar, proc, puts>>

\* Database.delete_task(task_id, user_id)
StoreDeleteTask(task_id, user_id) ==
    LET done == DbDeleteTask(task_id, user_id)
    IN
    /\ tasks' = done.tasks
    /\ last' = [Request("db.delete_task", "", NoCookies, None) EXCEPT
                    !.task_id = task_id, !.user_id = PyInt(user_id),
                    !.before = RowWithId(task_id), !.ret = PyBool(done.ret)]
    /\ UNCHANGED <<users, nextTaskId, now, jar, proc, puts>>

(* ------------------------------ requests ------------------------------- *)

TaskIds == 1..MaxTasks

\* bodies of POST /register and POST /login
AccountBodies ==
    {[email |-> e, password |-> p] :
        e \in {Absent, PyStr("a@x.com"), PyStr("b@x.com")},
        p \in {PyStr(""), PyStr("p"), PyStr("q")}}

\* what a client may send as a cookie value: nothing a JWT parser accepts,
\* or a token signed with this key or another, with or without user_id,
\* expiring now or expires_in minutes from now
TokenValues ==
    {PyStr(""), PyStr("garbage")}
    \cup {[py |-> "jwt", key |-> k, payload |-> [user_id |-> u, exp |-> PyInt(e)]] :
            k \in {SECRET_KEY, "another key"},
            u \in {Absent, PyInt(1)},
            e \in {now, now + expires_in}}

\* the cookies of a request: none, the client's jar as the responses left
\* it, one cookie made by hand under the name the middleware reads, or a
\* fresh token under the other name
AnyCookies ==
    {NoCookies, jar}
    \cup {[NoCookies EXCEPT !.jwt_token = v] : v \in TokenValues}
    \cup {[NoCookies EXCEPT !.token = generate_jwt([user_id |-> PyInt(1)], expires_in, now)]}

\* the token a login of a registered user would issue now, sent under the
\* name the middleware reads
SignedInCookies ==
    {[NoCookies EXCEPT !.jwt_token = generate_jwt([user_id |-> PyInt(u)], expires_in, now)] :
        u \in DOMAIN users}

FullBody ==
    [name |-> PyStr("a"), description |-> PyStr("x"), status |-> PyStr("new"),
     expiration_date |-> IsoDate(1), priority |-> PyInt(1)]

OtherBody ==
    [name |-> PyStr("b"), description |-> PyStr("y"), status |-> PyStr("done"),
     expiration_date |-> IsoDate(2), priority |-> PyInt(2)]

TaskKeys == {"name", "description", "status", "expiration_date", "priority"}

\* bodies of POST /tasks: complete ones, and ones with a key missing, null,
\* with a status outside the enumeration or with an empty name
CreateBodies ==
    {FullBody, OtherBody, [FullBody EXCEPT !.status = PyStr("in_progress")],
     [FullBody EXCEPT !.status = PyStr("archived")],
     [FullBody EXCEPT !.name = PyStr("")]}
    \cup {[FullBody EXCEPT ![k] = Absent] : k \in TaskKeys}
    \cup {[FullBody EXCEPT ![k] = None] : k \in TaskKeys}

\* body with only the keys in K kept
Sparse(body, K) == [k \in TaskKeys |-> IF k \in K THEN body[k] ELSE Absent]

\* bodies of PUT /tasks/{id}/: complete ones (one of them with a null
\* expiration_date, two with a priority that is not one of 1..10) and
\* sparse ones
UpdateBodies ==
    {OtherBody, [FullBody EXCEPT !.expiration_date = None],
     [OtherBody EXCEPT !.priority = PyInt(0)],
     [OtherBody EXCEPT !.priority = PyInt(11)]}
    \cup {Sparse(OtherBody, K) :
            K \in {{}, {"priority"}, {"status"}, TaskKeys \ {"expiration_date"}}}

\* keyword arguments of Database.update_task: None for one left out
Patch(body, K) ==
    [k \in TaskKeys |->
        IF k \notin K THEN None
        ELSE IF k = "expiration_date" /\ body[k] # None THEN fromisoformat(body[k])
        ELSE body[k]]

StorePatches ==
    {Patch(OtherBody, K) :
        K \in {{}, {"priority"}, {"status"}, {"expiration_date"}, {"name", "description"}}}
    \cup {Patch(FullBody, {"status"})}

\* query strings of GET /tasks: up to MaxQuery status parameters, each
\* value at most once, an empty one (?status=) before the others
StatusParams == {"", "new", "done"}
ParamRank(s) == CASE s = "" -> 0 [] s = "new" -> 1 [] s = "done" -> 2
Queries ==
    {q \in UNION {[1..n -> StatusParams] : n \in 0..MaxQuery} :
        \A i \in 1..(Len(q) - 1) : ParamRank(q[i]) < ParamRank(q[i + 1])}

(* --------------------------- specifications ---------------------------- *)

\* Accounts and the gate: any cookies, on the two routes that only read
NextAuth ==
    \/ \E d \in AccountBodies : RegisterUser(d)
    \/ \E d \in AccountBodies : LoginUser(d)
    \/ \E c \in AnyCookies, scan \in Scans : GetTasks(c, << >>, scan)
    \/ \E c \in AnyCookies, i \in TaskIds : GetTask(c, i)
    \/ Tick

SpecAuth == Init /\ [][NextAuth]_vars

\* the users table with two accounts registered
SignedUp ==
    <<[id |-> 1, email |-> "a@x.com", password |-> hash_password(PyStr("p"))],
      [id |-> 2, email |-> "b@x.com", password |-> hash_password(PyStr("p"))]>>

InitSignedUp ==
    /\ users = SignedUp
    /\ tasks = << >>
    /\ nextTaskId = 1
    /\ now = 0
    /\ jar = NoCookies
    /\ last = Blank
    /\ proc = Started
    /\ puts = NoPuts

\* Creation: signed-in clients, complete and defective bodies
NextCreate ==
    \/ \E c \in SignedInCookies, d \in CreateBodies : CreateTask(c, d)
    \/ \E c \in SignedInCookies, i \in TaskIds : GetTask(c, i)
    \/ Tick

SpecCreate == InitSignedUp /\ [][NextCreate]_vars

\* the tasks table after one of the two users created a task from FullBody
InitOneTask ==
    /\ users = SignedUp
    /\ \E u \in DOMAIN SignedUp :
          tasks = (1 :> [id |-> 1, user_id |-> u, name |-> FullBody.name,
                         description |-> FullBody.description,
                         status |-> FullBody.status,
                         created |-> created_default(0),
                         last_status_modified |-> PyDatetime(0),
                         expiration_date |-> fromisoformat(FullBody.expiration_date),
                         priority |-> FullBody.priority])
    /\ nextTaskId = 2
    /\ now = 0
    /\ jar = NoCookies
    /\ last = Blank
    /\ proc = Started
    /\ puts = NoPuts

\* Reading, updating and deleting one task: both users, through the routes
\* and through the store's methods
Next ==
    \/ \E c \in SignedInCookies, i \in TaskIds : GetTask(c, i)
    \/ \E c \in SignedInCookies, i \in TaskIds, d \in UpdateBodies : UpdateTask(c, i, d)
    \/ \E i \in TaskIds, u \in DOMAIN users, d \in StorePatches : StoreUpdateTask(i, u, d)
    \/ \E i \in TaskIds, u \in DOMAIN users : StoreDeleteTask(i, u)
    \/ Tick

Spec == InitOneTask /\ [][Next]_vars

\* a row as a listing run finds it
ListedRow(i, u, status, priority, t) ==
    [id |-> i, user_id |-> u, name |-> PyStr("a"), description |-> PyStr("x"),
     status |-> PyStr(status), created |-> created_default(0),
     last_status_modified |-> PyDatetime(t), expiration_date |-> None,
     priority |-> PyInt(priority)]

\* what the rows of those tables are like: five of the first user, which
\* differ in status, in priority within a status and in the instant of the
\* last status change within a priority; and one of the second user
ListedKinds ==
    {[u |-> 1, status |-> "in_progress", priority |-> 1, t |-> 0],
     [u |-> 1, status |-> "new", priority |-> 1, t |-> 0],
     [u |-> 1, status |-> "new", priority |-> 2, t |-> 0],
     [u |-> 1, status |-> "new", priority |-> 1, t |-> 1],
     [u |-> 1, status |-> "done", priority |-> 1, t |-> 0],
     [u |-> 2, status |-> "new", priority |-> 1, t |-> 0]}

\* tables of up to MaxListed rows, only the first of which may be the
\* second user's
InitListed ==
    /\ users = SignedUp
    /\ \E n \in 0..MaxListed :
          \E k \in [1..n -> ListedKinds] :
             /\ \A i \in 2..n : k[i].u = 1
             /\ tasks = [i \in 1..n |->
                            ListedRow(i, k[i].u, k[i].status, k[i].priority, k[i].t)]
             /\ nextTaskId = n + 1
    /\ now = 1
    /\ jar = NoCookies
    /\ last = Blank
    /\ proc = Started
    /\ puts = NoPuts

\* the first user, signed in
FirstUserCookies ==
    {[NoCookies EXCEPT !.jwt_token = generate_jwt([user_id |-> PyInt(1)], expires_in, now)]}

\* Listing: the first user's GET /tasks and GET /tasks/{id}/
NextList ==
    \/ \E c \in FirstUserCookies, q \in Queries, scan \in Scans : GetTasks(c, q, scan)
    \/ \E c \in FirstUserCookies, i \in DOMAIN tasks : GetTask(c, i)

SpecList == InitListed /\ [][NextList]_vars

\* bodies of the PUT requests in flight: two complete ones that differ in
\* every field, one whose priority the store leaves alone, a sparse one
PutBodies ==
    {OtherBody, [FullBody EXCEPT !.expiration_date = None],
     [OtherBody EXCEPT !.priority = PyInt(0), !.name = PyStr("c")],
     Sparse(OtherBody, {"status"})}

\* Two clients, each with one PUT, whose awaits interleave with each other,
\* with the store's delete_task and with the clock
NextPuts ==
    \/ \E c \in Clients, k \in SignedInCookies, i \in TaskIds, d \in PutBodies :
          PutCheck(c, k, i, d)
    \/ \E c \in Clients : PutUpdate(c)
    \/ \E i \in TaskIds, u \in DOMAIN users : StoreDeleteTask(i, u)
    \/ Tick

SpecPuts == InitOneTask /\ [][NextPuts]_vars

\* main.py, line by line: the process before init_app, the database as an
\* earlier run left it
InitProcess ==
    /\ users = SignedUp
    /\ tasks = << >>
    /\ nextTaskId = 1
    /\ now = 0
    /\ jar = NoCookies
    /\ last = Blank
    /\ proc = NotStarted
    /\ puts = NoPuts

\* init_app: the Database is made and connected, the routes are set up,
\* and run_app starts to serve
InitApp ==
    /\ proc.phase = "init"
    /\ proc' = [DbConnect(proc) EXCEPT !.phase = "serving"]
    /\ UNCHANGED <<users, tasks, nextTaskId, now, jar, last, puts>>

\* run_app stops serving (SIGINT, SIGTERM), runs the callbacks registered
\* for the cleanup of the application and returns; the process ends
Shutdown ==
    /\ proc.phase = "serving"
    /\ proc' = [(IF \E i \in DOMAIN on_cleanup : on_cleanup[i] = "db.close"
                 THEN DbClose(proc) ELSE proc) EXCEPT !.phase = "exited"]
    /\ UNCHANGED <<users, tasks, nextTaskId, now, jar, last, puts>>

\* One run of the process: requests are served between init_app and the
\* return of run_app
NextProcess ==
    \/ InitApp
    \/ proc.phase = "serving" /\ NextCreate
    \/ Shutdown

SpecProcess == InitProcess /\ [][NextProcess]_vars

(* ------------------------------- claims -------------------------------- *)

\* C1: on a path other than /login and /register the handler runs only for
\* a request whose jwt_token cookie is a token signed with SECRET_KEY, not
\* yet expired and carrying user_id, and then request["user_id"] is the
\* token's user_id; any other request ends with 401, the handler not run
\* and no identity attached.
GateFailsClosed ==
    (last.op # "" /\ last.path \notin {"/login", "/register"}) =>
        LET token == last.cookies.jwt_token
            accepted == /\ token.py = "jwt"
                        /\ token.key = SECRET_KEY
                        /\ token.payload.exp.n > last.at
                        /\ token.payload.user_id # Absent
        IN /\ last.handled => accepted /\ last.user_id = token.payload.user_id
           /\ ~accepted => ~last.handled /\ last.status = 401 /\ last.user_id = Absent

\* a protected request was handled with the identity of its token
GateFailsClosedWitness ==
    /\ last.op = "get_task"
    /\ last.handled
    /\ last.cookies.jwt_token.py = "jwt"
    /\ last.user_id = PyInt(1)

\* C2: a login with the credentials of a registered user answers 200 and
\* sets a cookie whose token carries that user's id, and a protected
\* request that presents exactly the client's cookies as the login left
\* them, before the token expires, is handled with that user's id.
LoginCookieOpensGate ==
    /\ (/\ last.op = "login"
        /\ Truthy(Get(last.data, "email"))
        /\ Truthy(Get(last.data, "password")))
       => \A i \in DOMAIN users :
             (/\ users[i].email = last.data.email.s
              /\ users[i].password = [bcrypt |-> last.data.password.s])
             => /\ last.status = 200
                /\ last.set_cookie.token.py = "jwt"
                /\ last.set_cookie.token.payload.user_id = PyInt(users[i].id)
    /\ (/\ last.op \in {"get_tasks", "get_task"}
        /\ jar.token # Absent
        /\ last.cookies = jar
        /\ jar.token.payload.exp.n > last.at)
       => /\ last.handled
          /\ last.user_id = jar.token.payload.user_id

\* C3: a get, update or delete by one user against the id of another
\* user's task reports not-found (404 from the routes, False from the
\* store's update_task and delete_task), returns none of the task's data
\* and leaves the task in the table exactly as it was.
CrossOwnerIsolation ==
    (/\ last.op \in {"get_task", "update_task", "db.update_task", "db.delete_task"}
     /\ last.user_id # Absent
     /\ last.before # None
     /\ last.before.user_id # last.user_id.n)
    => /\ last.result = << >>
       /\ last.op \in {"get_task", "update_task"} => last.status = 404
       /\ last.op \in {"db.update_task", "db.delete_task"} => last.ret = PyBool(FALSE)
       /\ last.task_id \in DOMAIN tasks
       /\ tasks[last.task_id] = last.before

\* the store's update_task was called with a status for another user's task
CrossOwnerIsolationWitness ==
    /\ last.op = "db.update_task"
    /\ last.before # None
    /\ last.before.user_id # last.user_id.n
    /\ last.data.status # None

\* C4: the list the store returns for GET /tasks, filtered or not, is in
\* the order in_progress, new, done; within a status by priority
\* descending; within a priority by last_status_modified descending: no
\* element is after its successor under those three keys.
ListIsOrdered ==
    (last.op = "get_tasks" /\ last.handled) =>
        LET Rank(d) == CASE d.status.s = "in_progress" -> 1
                         [] d.status.s = "new" -> 2
                         [] d.status.s = "done" -> 3
            NotAfter(a, b) ==
                \/ Rank(a) < Rank(b)
                \/ /\ Rank(a) = Rank(b)
                   /\ \/ a.priority.n > b.priority.n
                      \/ /\ a.priority.n = b.priority.n
                         /\ a.last_status_modified.t >= b.last_status_modified.t
        IN \A i \in 1..(Len(last.found) - 1) : NotAfter(last.found[i], last.found[i + 1])

\* a list of two tasks came back with the later row first
ListIsOrderedWitness ==
    /\ last.op = "get_tasks"
    /\ Len(last.found) = 2
    /\ last.found[1].id = PyInt(2)
    /\ last.found[1].status = PyStr("in_progress")
    /\ last.found[2].status = PyStr("new")

\* C5: GET /tasks of a user who owns a task answers 200 with the list of
\* the tasks in the form serialize_task gives them (the form of
\* GET /tasks/{id}/).
ListIsSerialized ==
    (/\ last.op = "get_tasks"
     /\ last.handled
     /\ \E i \in DOMAIN tasks : tasks[i].user_id = last.user_id.n)
    => /\ last.status = 200
       /\ Len(last.result) = Len(last.found)
       /\ \A i \in DOMAIN last.found : last.result[i] = serialize_task(last.found[i])

\* C6: a POST /tasks whose body lacks name, description, status or
\* priority, or has null for one of them, or has a status other than new,
\* in_progress and done, is answered 400 and leaves the tasks table (and
\* its id sequence) as they were.
CreateValidation ==
    [][(/\ last'.op = "create_task"
        /\ last'.handled
        /\ \/ \E k \in {"name", "description", "status", "priority"} :
                 last'.data[k] \in {Absent, None}
           \/ last'.data.status \notin
                 {PyStr("new"), PyStr("in_progress"), PyStr("done")})
       => /\ last'.status = 400
          /\ tasks' = tasks
          /\ nextTaskId' = nextTaskId]_vars

\* a create with a status outside the enumeration was turned down
CreateValidationWitness ==
    /\ last.op = "create_task"
    /\ last.data.status = PyStr("archived")
    /\ last.status = 400
    /\ last.text = "Invalid status"
    /\ tasks = << >>

\* C7: a PUT on an owned task whose body holds some (at least one) of the
\* five keys is answered 200, overwrites the fields that are present and truthy and
\* leaves every absent one of name, description, status, priority as
\* stored.
SparseUpdateAccepted ==
    (/\ last.op = "update_task"
     /\ last.handled
     /\ last.before # None
     /\ last.before.user_id = last.user_id.n
     /\ \E k \in TaskKeys : last.data[k] # Absent
     /\ last.data.status = Absent \/ last.data.status.s \in {"new", "in_progress", "done"})
    => /\ last.status = 200
       /\ \A k \in {"name", "description", "status", "priority"} :
             tasks[last.task_id][k] =
                IF Truthy(last.data[k]) THEN last.data[k] ELSE last.before[k]

\* C8: an update applied to an owned task (update_task called directly, or
\* by the PUT handler) sets last_status_modified to the instant of the
\* update when the patch carries a status, the stored one included, and
\* leaves it as it was when the patch carries none.
StatusTimestampCoupling ==
    (\/ /\ last.op = "db.update_task"
        /\ last.before # None
        /\ last.before.user_id = last.user_id.n
     \/ /\ last.op = "update_task"
        /\ last.status = 200)
    => tasks[last.task_id].last_status_modified =
          IF last.data.status \notin {None, Absent}
          THEN PyDatetime(last.at)
          ELSE last.before.last_status_modified

\* a patch with the stored status refreshed the timestamp
StatusTimestampCouplingWitness ==
    /\ last.op = "db.update_task"
    /\ last.before # None
    /\ last.before.user_id = last.user_id.n
    /\ last.data.status = last.before.status
    /\ tasks[last.task_id].last_status_modified.t > last.before.last_status_modified.t

\* C9: an update applied to an owned task (update_task called directly, or
\* by the PUT handler) leaves expiration_date unset when the patch has
\* none (the keyword left out or None; null in the body of the PUT), and
\* equal to the date of the patch when it has one.
ExpirationClearOnAbsence ==
    (\/ /\ last.op = "db.update_task"
        /\ last.before # None
        /\ last.before.user_id = last.user_id.n
     \/ /\ last.op = "update_task"
        /\ last.status = 200)
    => tasks[last.task_id].expiration_date =
          LET v == last.data.expiration_date
          IN IF v \in {None, Absent} THEN None
             ELSE IF v.py = "str" THEN PyDate(v.isodate)
             ELSE v

\* a PUT with a null expiration_date cleared a date that was set
ExpirationClearOnAbsenceWitness ==
    /\ last.op = "update_task"
    /\ last.status = 200
    /\ last.data.expiration_date = None
    /\ last.before.expiration_date # None
    /\ tasks[last.task_id].expiration_date = None

\* C10: update_task called with no field at all returns False and leaves
\* the task as it was, whether or not the task is there and owned.
EmptyPatchFails ==
    (/\ last.op = "db.update_task"
     /\ \A k \in TaskKeys : last.data[k] = None)
    => /\ last.ret = PyBool(FALSE)
       /\ last.before # None =>
             /\ last.task_id \in DOMAIN tasks
             /\ tasks[last.task_id] = last.before

\* C11: a token issued at instant t with ttl d is rejected by the gate at
\* every instant from t + d on (ttl 0: from the instant of issue on): the
\* request ends with 401 and no identity is attached.
TokenExpiry ==
    \A k \in 0..MaxTicks : \A d \in {0, expires_in} :
        (/\ last.op \in {"get_tasks", "get_task"}
         /\ last.cookies.jwt_token =
                generate_jwt([user_id |-> PyInt(1)], d, k * expires_in)
         /\ last.at >= k * expires_in + d)
        => /\ ~last.handled
           /\ last.status = 401
           /\ last.text = "Token has expired"
           /\ last.user_id = Absent

\* a token of ttl 0 was turned down at the instant of its issue
TokenExpiryWitness ==
    /\ last.op = "get_task"
    /\ last.cookies.jwt_token = generate_jwt([user_id |-> PyInt(1)], 0, last.at)
    /\ last.status = 401
    /\ last.text = "Token has expired"

\* C12: a login whose email is not registered, or whose password is not the
\* one hashed for that email, fails and sets no cookie, with 401 when the
\* body carries both an email and a password; and a cookie that a login
\* sets holds a token for the user whose email and password the body
\* carries, never for another.
LoginRejection ==
    last.op = "login" =>
        LET verified ==
                {i \in DOMAIN users :
                    /\ Truthy(Get(last.data, "email"))
                    /\ Truthy(Get(last.data, "password"))
                    /\ users[i].email = last.data.email.s
                    /\ users[i].password = hash_password(last.data.password)}
        IN /\ verified = {} =>
                /\ last.status \in {400, 401}
                /\ last.set_cookie = NoCookies
                /\ (Truthy(Get(last.data, "email")) /\ Truthy(Get(last.data, "password")))
                      => last.status = 401 /\ last.text = "Invalid credentials"
           /\ last.set_cookie # NoCookies =>
                \E i \in verified :
                    last.set_cookie.token.payload.user_id = PyInt(users[i].id)

\* a login with a registered email and another password was turned down
\* while a second account with that very password exists
LoginRejectionWitness ==
    /\ last.op = "login"
    /\ last.status = 401
    /\ last.set_cookie = NoCookies
    /\ \E i, j \in DOMAIN users :
          /\ users[i].email = last.data.email.s
          /\ users[i].password # hash_password(last.data.password)
          /\ users[j].password = hash_password(last.data.password)

\* C13: every stored task has an integer priority from 1 to 10, and a
\* create or an update that carries a priority outside 1..10 leaves the
\* tasks table as it was.
PriorityInRange ==
    /\ \A i \in DOMAIN tasks :
          tasks[i].priority.py = "int" /\ tasks[i].priority.n \in 1..10
    /\ (/\ last.op \in {"create_task", "update_task"}
        /\ last.handled
        /\ last.data.priority.py = "int"
        /\ last.data.priority.n \notin 1..10)
       => RowWithId(last.task_id) = last.before

\* C14: every stored task has a non-empty name and a non-empty description,
\* and a create whose name or description is the empty string is answered
\* 400 and stores no row.
NonEmptyText ==
    /\ \A i \in DOMAIN tasks :
          tasks[i].name # PyStr("") /\ tasks[i].description # PyStr("")
    /\ (/\ last.op = "create_task"
        /\ last.handled
        /\ PyStr("") \in {last.data.name, last.data.description})
       => /\ last.status = 400
          /\ RowWithId(last.task_id) = None

\* C15: the list the store returns for GET /tasks holds exactly the tasks of
\* the requesting user, each once: those whose status is one of the
\* status parameters when the query string names a status, and all of
\* them when it names none (an empty parameter names no status); it
\* holds no task of another user.
ListMembership ==
    (last.op = "get_tasks" /\ last.handled) =>
        LET status_filter == {last.data[k] : k \in DOMAIN last.data} \ {""}
            wanted ==
                {i \in DOMAIN tasks :
                    /\ tasks[i].user_id = last.user_id.n
                    /\ \/ status_filter = {}
                       \/ \E f \in status_filter : tasks[i].status = PyStr(f)}
        IN /\ Len(last.found) = Cardinality(wanted)
           /\ \A i \in wanted :
                 \E j \in DOMAIN last.found : last.found[j].id = PyInt(tasks[i].id)
           /\ \A j \in DOMAIN last.found :
                 \E i \in wanted : last.found[j].id = PyInt(tasks[i].id)

\* C16: the gate decides every request anew from the token that request
\* carries: of two protected requests in a row, the second is rejected
\* with 401 when it has no token or a token no longer valid at its own
\* instant, also when the first was accepted with the same cookies; and
\* it is accepted with the identity of its own token when that token is
\* valid, also when the first was rejected.
NoCachedAuthorization ==
    [][LET tok == last'.cookies.jwt_token
           valid == /\ tok.py = "jwt"
                    /\ tok.key = SECRET_KEY
                    /\ tok.payload.user_id # Absent
                    /\ tok.payload.exp.n > last'.at
       IN (/\ last' # last
           /\ last.path \notin {"", "/login", "/register"}
           /\ last'.path \notin {"", "/login", "/register"})
          => /\ (last.handled /\ ~valid)
                  => /\ ~last'.handled
                     /\ last'.status = 401
                     /\ last'.user_id = Absent
             /\ (~last.handled /\ valid)
                  => /\ last'.handled
                     /\ last'.user_id = tok.payload.user_id]_vars

\* the token that the default ttl made good from instant 0 was turned down
\* at the instant of its expiry
NoCachedAuthorizationWitness ==
    /\ last.op \in {"get_tasks", "get_task"}
    /\ last.cookies.jwt_token = generate_jwt([user_id |-> PyInt(1)], expires_in, 0)
    /\ last.at = expires_in
    /\ last.status = 401
    /\ ~last.handled

\* C17: in a run of the process the pool is created once, before any
\* request is served; no request is served without the open pool; and
\* when the process has stopped serving and ended, the pool has been
\* closed, once.
PoolLifecycle ==
    /\ proc.connects <= 1
    /\ proc.closes <= 1
    /\ proc.phase = "init" => last = Blank
    /\ proc.phase = "serving" => proc.pool = PyStr("open") /\ proc.connects = 1
    /\ proc.phase = "exited" => proc.pool = PyStr("closed") /\ proc.closes = 1

\* C18: when two PUT requests on the same task of their sender have both
\* run their UPDATE, however their steps interleaved, the stored task is
\* what applying the first executed patch and then the second to the
\* task as it was gives, field by field: a non-empty name, description
\* and status and a non-zero priority replace the stored one, the
\* expiration_date is the one of the patch (unset for null),
\* last_status_modified is the instant of the UPDATE that set a status.
LastWriteWins ==
    LET IsUpdate(e) == e.step = "update"
        updates == SelectSeq(puts.log, IsUpdate)
        Applied(row, body, t) ==
            [id |-> row.id, user_id |-> row.user_id, created |-> row.created,
             name |-> IF body.name # PyStr("") THEN body.name ELSE row.name,
             description |-> IF body.description # PyStr("")
                             THEN body.description ELSE row.description,
             status |-> IF body.status # PyStr("") THEN body.status ELSE row.status,
             priority |-> IF body.priority # PyInt(0)
                          THEN body.priority ELSE row.priority,
             expiration_date |-> IF body.expiration_date = None THEN None
                                 ELSE PyDate(body.expiration_date.isodate),
             last_status_modified |-> IF body.status # PyStr("")
                                      THEN PyDatetime(t)
                                      ELSE row.last_status_modified]
    IN (/\ Len(updates) = 2
        /\ \A c \in Clients : puts.req[c].ret = PyBool(TRUE)
        /\ puts.req["A"].task_id = puts.req["B"].task_id
        /\ RowWithId(puts.req["A"].task_id) # None)
       => LET first == puts.req[updates[1].client]
              second == puts.req[updates[2].client]
          IN tasks[first.task_id] =
                Applied(Applied(updates[1].before, first.data, first.at),
                        second.data, second.at)

\* both requests passed their existence check before either ran its
\* UPDATE, and the request checked first wrote last, with another body
LastWriteWinsWitness ==
    /\ Len(puts.log) = 4
    /\ puts.log[1].step = "check" /\ puts.log[2].step = "check"
    /\ puts.log[3].step = "update" /\ puts.log[4].step = "update"
    /\ puts.log[1].client = puts.log[4].client
    /\ puts.req["A"].data # puts.req["B"].data
    /\ \A c \in Clients : puts.req[c].ret = PyBool(TRUE)
    /\ puts.req["A"].at # puts.req["B"].at
    /\ RowWithId(1) # None

\* C19: a PUT answered 200 "Task updated successfully" is one whose
\* update_task returned True (one row of that id and owner was updated),
\* whatever other store operation ran between its steps.
UpdateAcknowledged ==
    \A c \in Clients :
        puts.req[c].status = 200 => puts.req[c].ret = PyBool(TRUE)

====
